---- MODULE Spec2Model ----
(***************************************************************************)
(* Model of rudelblinken-filesystem/src/storage/esp.rs: the flash backed   *)
(* Storage implementation (FlashStorage), the hardware primitives it calls *)
(* and the lazily built global singletons.                                 *)
(*                                                                         *)
(* The sizes are scaled down so that the state space is finite and small:  *)
(* a byte has 1 bit, a u32 has 4 bits, a block has 2 bytes, the partition  *)
(* has 2 blocks and an MMU page is one block.  The relations the code      *)
(* relies on are kept: BLOCKS * BLOCK_SIZE * 2 fits a u32, the u32 modulus *)
(* is a multiple of BLOCK_SIZE, the partition spans several MMU pages.     *)
(***************************************************************************)
EXTENDS Integers, Sequences, FiniteSets, TLC

VARIABLES
    flash,                \* contents of the storage partition, byte per offset
    shadow,               \* history: AND of all data written to a byte since its last erase
    mmu,                  \* MMU table: virtual page -> flash page of the partition, or NoPage
    nvsTaken,             \* the default NVS partition is taken (EspDefaultNvsPartition::take)
    STORAGE_SINGLETON,    \* Option<FlashStorage>: << >> or <<storage>>
    FILESYSTEM_SINGLETON, \* Option<RwLock<Filesystem>>: << >> or <<filesystem>>
    call,                 \* the Storage operation that ran last, with its result
    partition,            \* what esp_partition_find yields: << >> or <<descriptor>>
    pc,                   \* per thread: where its get_filesystem call stands
    first_pointer,        \* per thread: FlashStorage::new's local first_pointer
    built,                \* per thread: the FlashStorage its FlashStorage::new returned
    result,               \* per thread: what its last get_filesystem call returned
    steps,                \* history, per thread: construction steps of its current call
    envFailed,            \* history: the platform made some call fail
    nvs,                  \* the "filesystem1" NVS namespace: key -> << >> or <<blob>>
    nvsLock,              \* the Mutex around the EspNvs handle: its holder, or NoThread
    mpc,                  \* per thread: where its metadata call stands
    mcall,                \* per thread: its metadata call, with its result
    latest                \* history: key -> the value the last completed set_raw stored

storageVars == <<flash, shadow, call>>
metaVars == <<nvs, nvsLock, mpc, mcall, latest>>
lifeVars == <<mmu, nvsTaken, STORAGE_SINGLETON, FILESYSTEM_SINGLETON, partition, pc,
              first_pointer, built, result, steps, envFailed>>
vars == <<flash, shadow, call, mmu, nvsTaken, STORAGE_SINGLETON, FILESYSTEM_SINGLETON,
          partition, pc, first_pointer, built, result, steps, envFailed,
          nvs, nvsLock, mpc, mcall, latest>>

----------------------------------------------------------------------------
(* Sizes *)

\* const BLOCKS: u32 = 256 (scaled)
BLOCKS == 2
\* const BLOCK_SIZE: u32 = 4096 (scaled)
BLOCK_SIZE == 2
\* 2^32, the modulus of u32 arithmetic (scaled to 2^4)
WORD == 16
\* CONFIG_MMU_PAGE_SIZE (scaled: one block)
MMU_PAGE_SIZE == 2
\* the value of an erased byte, all bits one (0xFF scaled to 1 bit)
ERASED == 1
\* longest data slice handed to write
MaxLen == 2
\* number of virtual pages the MMU can hand out
VPages == 3
\* number of threads calling get_filesystem, and calling the metadata operations
NumThreads == 2
\* let mut read_buffer = [0u8; 256] (scaled)
READ_BUFFER == 2
\* longest value handed to write_metadata
MaxBlob == 3

Capacity == BLOCKS * BLOCK_SIZE
\* (*partition).size: the storage partition is exactly BLOCKS blocks long
PartitionSize == BLOCKS * BLOCK_SIZE
\* the number of MMU pages the partition spans
PartitionPages == PartitionSize \div MMU_PAGE_SIZE

U32 == 0 .. WORD - 1
Byte == 0 .. ERASED
Offsets == 0 .. PartitionSize - 1
VPageSet == 0 .. VPages - 1
PartitionPageSet == 0 .. PartitionPages - 1
Threads == 1 .. NumThreads
NoPage == -1
NoThread == 0
MetaKeys == {"k1", "k2"}
\* the values handed to write_metadata: one blob of every length up to MaxBlob
MetaValues == {[i \in 1 .. n |-> 0] : n \in 1 .. MaxBlob}

Datas == UNION {[1 .. n -> Byte] : n \in 0 .. MaxLen}

None == << >>
Some(x) == <<x>>

RECURSIVE BitAnd(_, _)
BitAnd(a, b) ==
    IF a = 0 \/ b = 0 THEN 0
    ELSE (a % 2) * (b % 2) + 2 * BitAnd(a \div 2, b \div 2)

----------------------------------------------------------------------------
(* The hardware primitives (ESP-IDF), as the code calls them *)

\* esp_partition_write_raw: NOR flash programming, a write can only clear bits
esp_partition_write_raw(fl, dst_offset, data, hwok) ==
    IF dst_offset > PartitionSize
    THEN [err |-> "ESP_ERR_INVALID_ARG", flash |-> fl]
    ELSE IF dst_offset + Len(data) > PartitionSize
    THEN [err |-> "ESP_ERR_INVALID_SIZE", flash |-> fl]
    ELSE IF ~hwok
    THEN [err |-> "ESP_FAIL", flash |-> fl]
    ELSE [err |-> "ESP_OK",
          flash |-> [i \in Offsets |->
                       IF i >= dst_offset /\ i < dst_offset + Len(data)
                       THEN BitAnd(fl[i], data[i - dst_offset + 1])
                       ELSE fl[i]]]

\* esp_partition_erase_range: sets every bit of the blocks in the range
esp_partition_erase_range(fl, offset, size, hwok) ==
    IF offset > PartitionSize
    THEN [err |-> "ESP_ERR_INVALID_ARG", flash |-> fl]
    ELSE IF offset + size > PartitionSize
    THEN [err |-> "ESP_ERR_INVALID_SIZE", flash |-> fl]
    ELSE IF offset % BLOCK_SIZE # 0 \/ size % BLOCK_SIZE # 0
    THEN [err |-> "ESP_ERR_INVALID_ARG", flash |-> fl]
    ELSE IF ~hwok
    THEN [err |-> "ESP_FAIL", flash |-> fl]
    ELSE [err |-> "ESP_OK",
          flash |-> [i \in Offsets |->
                       IF i >= offset /\ i < offset + size THEN ERASED ELSE fl[i]]]

\* esp_partition_mmap: the virtual pages the primitive may pick for the flash
\* range [offset, offset + size): consecutive pages, each free or already
\* showing the wanted flash page
MmapPlacements(tbl, offset, size) ==
    LET first == offset \div MMU_PAGE_SIZE
        n == (size + MMU_PAGE_SIZE - 1) \div MMU_PAGE_SIZE
    IN  {vp \in VPageSet :
           \A k \in 0 .. n - 1 :
              /\ vp + k \in VPageSet
              /\ tbl[vp + k] \in {NoPage, first + k}}

\* esp_partition_mmap: the MMU table after mapping [offset, offset + size) at vp
MmapTable(tbl, vp, offset, size) ==
    LET first == offset \div MMU_PAGE_SIZE
        n == (size + MMU_PAGE_SIZE - 1) \div MMU_PAGE_SIZE
    IN  [p \in VPageSet |-> IF p >= vp /\ p < vp + n THEN first + (p - vp) ELSE tbl[p]]

\* the pointer esp_partition_mmap stores in out_ptr
MmapPointer(vp, offset) == vp * MMU_PAGE_SIZE + (offset % MMU_PAGE_SIZE)

\* the byte a load from virtual address va yields: the flash byte the MMU maps
\* there, or Unmapped when nothing of the partition is mapped at va
Unmapped == -1
Load(fl, tbl, va) ==
    LET p == va \div MMU_PAGE_SIZE
    IN  IF p \in VPageSet /\ tbl[p] # NoPage
        THEN fl[tbl[p] * MMU_PAGE_SIZE + (va % MMU_PAGE_SIZE)]
        ELSE Unmapped

----------------------------------------------------------------------------
(* impl Storage for FlashStorage *)

NoCall == [op |-> "none", address |-> 0, length |-> 0, data |-> << >>,
           result |-> "None", hw |-> << >>, view |-> << >>]

BoundsErrors == {"AddressTooBig", "SizeTooBig"}
AlignmentErrors == {"CanOnlyEraseAlongBlockBoundaries", "CanOnlyEraseInBlockSizedChunks"}

\* FlashStorage::read; wraps tells whether a u32 overflow wraps (release
\* build) or panics (debug build)
read(self, address, length, wraps) ==
    IF address > BLOCKS * BLOCK_SIZE
    THEN [result |-> "AddressTooBig", view |-> << >>]
    ELSE IF address + length >= WORD /\ ~wraps
    THEN [result |-> "Panic", view |-> << >>]
    ELSE IF (address + length) % WORD > BLOCKS * BLOCK_SIZE * 2
    THEN [result |-> "SizeTooBig", view |-> << >>]
    ELSE [result |-> "Ok",
          view |-> <<[ptr |-> self.storage_arena + address, len |-> length]>>]

\* the bytes a caller sees through the slice read returned
ViewBytes(fl, tbl, v) == [i \in 1 .. v.len |-> Load(fl, tbl, v.ptr + i - 1)]

\* write as it would be with the erase that line 214 has commented out: the
\* blocks the data touches are erased before they are programmed
write_erasing_first(fl, address, data, hwok) ==
    LET first == address - (address % BLOCK_SIZE)
        e == esp_partition_erase_range(fl, first, BLOCK_SIZE, hwok)
        r == esp_partition_write_raw(e.flash, address, data, hwok)
    IN  [result |-> IF r.err # "ESP_OK" THEN "Other" ELSE "Ok",
         flash |-> r.flash,
         hw |-> <<[prim |-> "esp_partition_erase_range",
                   offset |-> first, size |-> BLOCK_SIZE],
                  [prim |-> "esp_partition_write_raw",
                   offset |-> address, size |-> Len(data)]>>]

\* FlashStorage::write
write(fl, address, data, hwok) ==
    LET r == esp_partition_write_raw(fl, address, data, hwok)
    IN  [result |-> IF r.err # "ESP_OK" THEN "Other" ELSE "Ok",
         flash |-> r.flash,
         hw |-> <<[prim |-> "esp_partition_write_raw",
                   offset |-> address, size |-> Len(data)]>>]

\* erase with the bounds checked before the alignment
erase_bounds_first(fl, address, length, hwok, wraps) ==
    IF length = 0
    THEN [result |-> "Ok", flash |-> fl, hw |-> << >>]
    ELSE IF address > BLOCKS * BLOCK_SIZE
    THEN [result |-> "AddressTooBig", flash |-> fl, hw |-> << >>]
    ELSE IF address + length >= WORD /\ ~wraps
    THEN [result |-> "Panic", flash |-> fl, hw |-> << >>]
    ELSE IF (address + length) % WORD > BLOCKS * BLOCK_SIZE
    THEN [result |-> "SizeTooBig", flash |-> fl, hw |-> << >>]
    ELSE IF address % BLOCK_SIZE # 0
    THEN [result |-> "CanOnlyEraseAlongBlockBoundaries", flash |-> fl, hw |-> << >>]
    ELSE IF length % BLOCK_SIZE # 0
    THEN [result |-> "CanOnlyEraseInBlockSizedChunks", flash |-> fl, hw |-> << >>]
    ELSE LET r == esp_partition_erase_range(fl, address, length, hwok)
         IN  [result |-> IF r.err # "ESP_OK" THEN "Other" ELSE "Ok",
              flash |-> r.flash,
              hw |-> <<[prim |-> "esp_partition_erase_range",
                        offset |-> address, size |-> length]>>]

\* erase without the early return for a length of zero
erase_zero_length_checked(fl, address, length, hwok, wraps) ==
    IF address % BLOCK_SIZE # 0
    THEN [result |-> "CanOnlyEraseAlongBlockBoundaries", flash |-> fl, hw |-> << >>]
    ELSE IF length % BLOCK_SIZE # 0
    THEN [result |-> "CanOnlyEraseInBlockSizedChunks", flash |-> fl, hw |-> << >>]
    ELSE IF address > BLOCKS * BLOCK_SIZE
    THEN [result |-> "AddressTooBig", flash |-> fl, hw |-> << >>]
    ELSE IF address + length >= WORD /\ ~wraps
    THEN [result |-> "Panic", flash |-> fl, hw |-> << >>]
    ELSE IF (address + length) % WORD > BLOCKS * BLOCK_SIZE
    THEN [result |-> "SizeTooBig", flash |-> fl, hw |-> << >>]
    ELSE LET r == esp_partition_erase_range(fl, address, length, hwok)
         IN  [result |-> IF r.err # "ESP_OK" THEN "Other" ELSE "Ok",
              flash |-> r.flash,
              hw |-> <<[prim |-> "esp_partition_erase_range",
                        offset |-> address, size |-> length]>>]

\* FlashStorage::erase
erase(fl, address, length, hwok, wraps) ==
    IF length = 0
    THEN [result |-> "Ok", flash |-> fl, hw |-> << >>]
    ELSE IF address % BLOCK_SIZE # 0
    THEN [result |-> "CanOnlyEraseAlongBlockBoundaries", flash |-> fl, hw |-> << >>]
    ELSE IF length % BLOCK_SIZE # 0
    THEN [result |-> "CanOnlyEraseInBlockSizedChunks", flash |-> fl, hw |-> << >>]
    ELSE IF address > BLOCKS * BLOCK_SIZE
    THEN [result |-> "AddressTooBig", flash |-> fl, hw |-> << >>]
    ELSE IF address + length >= WORD /\ ~wraps
    THEN [result |-> "Panic", flash |-> fl, hw |-> << >>]
    ELSE IF (address + length) % WORD > BLOCKS * BLOCK_SIZE
    THEN [result |-> "SizeTooBig", flash |-> fl, hw |-> << >>]
    ELSE LET r == esp_partition_erase_range(fl, address, length, hwok)
         IN  [result |-> IF r.err # "ESP_OK" THEN "Other" ELSE "Ok",
              flash |-> r.flash,
              hw |-> <<[prim |-> "esp_partition_erase_range",
                        offset |-> address, size |-> length]>>]

----------------------------------------------------------------------------
(* The storage a completed setup leaves behind *)

EmptyMmu == [p \in VPageSet |-> NoPage]

\* FlashStorage::new, the three mapping calls: every (storage_arena, mmu) they
\* can produce from an empty MMU table
Mappings ==
    UNION {UNION {{[storage_arena |-> MmapPointer(a, 0),
                    mmu |-> MmapTable(MmapTable(MmapTable(EmptyMmu, a, 0, MMU_PAGE_SIZE), b,
                                                MMU_PAGE_SIZE, PartitionSize - MMU_PAGE_SIZE),
                                      c, 0, PartitionSize)] :
                     c \in MmapPlacements(
                              MmapTable(MmapTable(EmptyMmu, a, 0, MMU_PAGE_SIZE), b,
                                        MMU_PAGE_SIZE, PartitionSize - MMU_PAGE_SIZE),
                              0, PartitionSize)} :
                    b \in MmapPlacements(MmapTable(EmptyMmu, a, 0, MMU_PAGE_SIZE),
                                         MMU_PAGE_SIZE, PartitionSize - MMU_PAGE_SIZE)} :
             a \in MmapPlacements(EmptyMmu, 0, MMU_PAGE_SIZE)}

\* a thread that is in no metadata call
NoMetaCall == [op |-> "none", key |-> "", value |-> << >>, result |-> "None",
               out |-> << >>, nvsok |-> TRUE]

\* the metadata namespace and its lock when no metadata call was ever made
InitMetadata ==
    /\ nvs = [k \in MetaKeys |-> None]
    /\ nvsLock = NoThread
    /\ mpc = [t \in Threads |-> "idle"]
    /\ mcall = [t \in Threads |-> NoMetaCall]
    /\ latest = [k \in MetaKeys |-> None]

\* what a thread holds that got no result from get_filesystem (yet)
NoResult == [ok |-> FALSE, fs |-> None, err |-> "NoResult"]

\* the partition descriptor of a correctly configured storage partition
GoodPartition == [erase_size |-> BLOCK_SIZE, size |-> PartitionSize]

----------------------------------------------------------------------------
(* Spec: the Storage operations on a constructed FlashStorage *)

Init ==
    /\ flash = [i \in Offsets |-> ERASED]
    /\ shadow = flash
    /\ call = NoCall
    /\ \E m \in Mappings :
          /\ mmu = m.mmu
          /\ STORAGE_SINGLETON = Some([builder |-> 1, storage_arena |-> m.storage_arena])
          /\ FILESYSTEM_SINGLETON =
                Some([builder |-> 1,
                      storage |-> [builder |-> 1, storage_arena |-> m.storage_arena]])
    /\ nvsTaken = TRUE
    /\ partition = Some(GoodPartition)
    /\ pc = [t \in Threads |-> "idle"]
    /\ first_pointer = [t \in Threads |-> 0]
    /\ built = [t \in Threads |-> None]
    /\ result = [t \in Threads |-> NoResult]
    /\ steps = [t \in Threads |-> {}]
    /\ envFailed = FALSE
    /\ InitMetadata

\* what the Storage contract says a successful write leaves in shadow
ShadowWrite(sh, address, data) ==
    [i \in Offsets |->
       IF i >= address /\ i < address + Len(data)
       THEN BitAnd(sh[i], data[i - address + 1])
       ELSE sh[i]]

\* what the Storage contract says a successful erase leaves in shadow
ShadowErase(sh, address, length) ==
    [i \in Offsets |-> IF i >= address /\ i < address + length THEN ERASED ELSE sh[i]]

\* a caller runs storage.read(address, length)
Read(address, length, wraps) ==
    /\ call = NoCall
    /\ STORAGE_SINGLETON # None
    /\ LET r == read(STORAGE_SINGLETON[1], address, length, wraps)
       IN  call' = [op |-> "read", address |-> address, length |-> length,
                    data |-> << >>, result |-> r.result, hw |-> << >>, view |-> r.view]
    /\ UNCHANGED <<flash, shadow>>
    /\ UNCHANGED lifeVars
    /\ UNCHANGED metaVars

\* a caller runs storage.write(address, data)
Write(address, data, hwok) ==
    /\ call = NoCall
    /\ STORAGE_SINGLETON # None
    /\ LET r == write(flash, address, data, hwok)
       IN  /\ flash' = r.flash
           /\ shadow' = IF r.result = "Ok" THEN ShadowWrite(shadow, address, data)
                        ELSE shadow
           /\ call' = [op |-> "write", address |-> address, length |-> Len(data),
                       data |-> data, result |-> r.result, hw |-> r.hw, view |-> << >>]
    /\ UNCHANGED lifeVars
    /\ UNCHANGED metaVars

\* a caller runs storage.erase(address, length)
Erase(address, length, hwok, wraps) ==
    /\ call = NoCall
    /\ STORAGE_SINGLETON # None
    /\ LET r == erase(flash, address, length, hwok, wraps)
       IN  /\ flash' = r.flash
           /\ shadow' = IF r.result = "Ok" THEN ShadowErase(shadow, address, length)
                        ELSE shadow
           /\ call' = [op |-> "erase", address |-> address, length |-> length,
                       data |-> << >>, result |-> r.result, hw |-> r.hw, view |-> << >>]
    /\ UNCHANGED lifeVars
    /\ UNCHANGED metaVars

\* the caller has taken the result of its call and may call again
CallReturns ==
    /\ call # NoCall
    /\ call' = NoCall
    /\ UNCHANGED <<flash, shadow>>
    /\ UNCHANGED lifeVars
    /\ UNCHANGED metaVars

Next ==
    \/ \E address \in U32, length \in U32, wraps \in BOOLEAN :
          Read(address, length, wraps)
    \/ \E address \in U32, data \in Datas, hwok \in BOOLEAN :
          Write(address, data, hwok)
    \/ \E address \in U32, length \in U32, hwok \in BOOLEAN, wraps \in BOOLEAN :
          Erase(address, length, hwok, wraps)
    \/ CallReturns

Spec == Init /\ [][Next]_vars

----------------------------------------------------------------------------
(* SpecLife: threads calling get_filesystem, from an unconstructed state *)

\* a partition whose erase size is not the block size
MismatchedPartition == [erase_size |-> 2 * BLOCK_SIZE, size |-> PartitionSize]

InitLife ==
    /\ flash = [i \in Offsets |-> ERASED]
    /\ shadow = flash
    /\ call = NoCall
    /\ mmu = EmptyMmu
    /\ nvsTaken = FALSE
    /\ STORAGE_SINGLETON = None
    /\ FILESYSTEM_SINGLETON = None
    /\ partition \in {None, Some(GoodPartition), Some(MismatchedPartition)}
    /\ pc = [t \in Threads |-> "idle"]
    /\ first_pointer = [t \in Threads |-> 0]
    /\ built = [t \in Threads |-> None]
    /\ result = [t \in Threads |-> NoResult]
    /\ steps = [t \in Threads |-> {}]
    /\ envFailed = FALSE
    /\ InitMetadata

\* get_filesystem that sets the storage up on every call
needs_setup_always(fs) == TRUE

\* get_filesystem: FILESYSTEM_SINGLETON.is_none()
needs_setup(fs) == fs = None

\* find the partition without comparing its erase size with the block size
find_partition_unchecked(part) ==
    IF part = None THEN "NoPartitionFound" ELSE "Ok"

\* FlashStorage::new, find the partition: Ok or the error returned
find_partition(part) ==
    IF part = None THEN "NoPartitionFound"
    ELSE IF part[1].erase_size # BLOCK_SIZE THEN "EraseSizeDoesNotMatchBlockSize"
    ELSE "Ok"

\* an error leaves get_filesystem through the ? operators
Fail(t, e) ==
    /\ pc' = [pc EXCEPT ![t] = "done"]
    /\ result' = [result EXCEPT ![t] = [ok |-> FALSE, fs |-> None, err |-> e]]

Did(t, step) == steps' = [steps EXCEPT ![t] = @ \cup {step}]

\* get_filesystem is entered and tests FILESYSTEM_SINGLETON
GetFilesystem(t) ==
    /\ pc[t] = "idle"
    /\ pc' = [pc EXCEPT ![t] = IF needs_setup(FILESYSTEM_SINGLETON) THEN "find" ELSE "ret"]
    /\ result' = [result EXCEPT ![t] = NoResult]
    /\ steps' = [steps EXCEPT ![t] = {}]
    /\ UNCHANGED <<mmu, nvsTaken, STORAGE_SINGLETON, FILESYSTEM_SINGLETON, partition,
                   first_pointer, built, envFailed>>
    /\ UNCHANGED storageVars
    /\ UNCHANGED metaVars

\* FlashStorage::new: esp_partition_find, esp_partition_get, the erase size check
FindPartition(t) ==
    /\ pc[t] = "find"
    /\ Did(t, "find")
    /\ IF find_partition(partition) = "Ok"
       THEN pc' = [pc EXCEPT ![t] = "mmap_first"] /\ UNCHANGED result
       ELSE Fail(t, find_partition(partition))
    /\ UNCHANGED <<mmu, nvsTaken, STORAGE_SINGLETON, FILESYSTEM_SINGLETON, partition,
                   first_pointer, built, envFailed>>
    /\ UNCHANGED storageVars
    /\ UNCHANGED metaVars

\* one esp_partition_mmap call of FlashStorage::new by thread t at from, going
\* to to when it returns 0; keep tells whether out_ptr is first_pointer
Mmap(t, from, to, offset, size, keep) ==
    /\ pc[t] = from
    /\ Did(t, "mmap")
    /\ \E ok \in BOOLEAN :
          \/ /\ ok
             /\ \E vp \in MmapPlacements(mmu, offset, size) :
                   /\ mmu' = MmapTable(mmu, vp, offset, size)
                   /\ first_pointer' = IF keep
                                       THEN [first_pointer EXCEPT ![t] = MmapPointer(vp, offset)]
                                       ELSE first_pointer
             /\ pc' = [pc EXCEPT ![t] = to]
             /\ UNCHANGED <<result, envFailed>>
          \/ /\ ~ok \/ MmapPlacements(mmu, offset, size) = {}
             /\ Fail(t, "FailedToMmapSecrets")
             /\ envFailed' = (envFailed \/ ~ok)
             /\ UNCHANGED <<mmu, first_pointer>>
    /\ UNCHANGED <<nvsTaken, STORAGE_SINGLETON, FILESYSTEM_SINGLETON, partition, built>>
    /\ UNCHANGED storageVars
    /\ UNCHANGED metaVars

\* FlashStorage::new: mount first mmu page
MmapFirstPage(t) == Mmap(t, "mmap_first", "mmap_rest", 0, MMU_PAGE_SIZE, TRUE)

\* FlashStorage::new: mount the remaining pages
MmapRemainingPages(t) ==
    Mmap(t, "mmap_rest", "mmap_whole", MMU_PAGE_SIZE, partition[1].size - MMU_PAGE_SIZE, FALSE)

\* FlashStorage::new: mmap the whole partition
MmapWholePartition(t) == Mmap(t, "mmap_whole", "nvs_take", 0, partition[1].size, FALSE)

\* FlashStorage::new: EspDefaultNvsPartition::take(), which only one holder
\* at a time gets
NvsTake(t) ==
    /\ pc[t] = "nvs_take"
    /\ Did(t, "nvs")
    /\ \E ok \in BOOLEAN :
          \/ /\ ok /\ ~nvsTaken
             /\ nvsTaken' = TRUE
             /\ pc' = [pc EXCEPT ![t] = "nvs_open"]
             /\ UNCHANGED <<result, envFailed>>
          \/ /\ ~ok \/ nvsTaken
             /\ Fail(t, "NoNvsPartitionFound")
             /\ envFailed' = (envFailed \/ ~ok)
             /\ UNCHANGED nvsTaken
    /\ UNCHANGED <<mmu, STORAGE_SINGLETON, FILESYSTEM_SINGLETON, partition,
                   first_pointer, built>>
    /\ UNCHANGED storageVars
    /\ UNCHANGED metaVars

\* FlashStorage::new: EspNvs::new(.., "filesystem1", true) and the return of
\* the FlashStorage; on an error the partition taken is dropped
NvsOpen(t) ==
    /\ pc[t] = "nvs_open"
    /\ Did(t, "nvs")
    /\ \E ok \in BOOLEAN :
          \/ /\ ok
             /\ built' = [built EXCEPT ![t] =
                            Some([builder |-> t, storage_arena |-> first_pointer[t]])]
             /\ pc' = [pc EXCEPT ![t] = "set_storage"]
             /\ UNCHANGED <<result, envFailed, nvsTaken>>
          \/ /\ ~ok
             /\ Fail(t, "FailedToOpenNvsNamespace")
             /\ nvsTaken' = FALSE
             /\ envFailed' = TRUE
             /\ UNCHANGED built
    /\ UNCHANGED <<mmu, STORAGE_SINGLETON, FILESYSTEM_SINGLETON, partition, first_pointer>>
    /\ UNCHANGED storageVars
    /\ UNCHANGED metaVars

\* setup_storage: STORAGE_SINGLETON = Some(..); a FlashStorage it replaces is
\* dropped, and its NVS partition with it
SetStorage(t) ==
    /\ pc[t] = "set_storage"
    /\ STORAGE_SINGLETON' = built[t]
    /\ nvsTaken' = IF STORAGE_SINGLETON # None THEN FALSE ELSE nvsTaken
    /\ built' = [built EXCEPT ![t] = None]
    /\ pc' = [pc EXCEPT ![t] = "set_filesystem"]
    /\ Did(t, "storage")
    /\ UNCHANGED <<mmu, FILESYSTEM_SINGLETON, partition, first_pointer, result, envFailed>>
    /\ UNCHANGED storageVars
    /\ UNCHANGED metaVars

\* setup_storage: FILESYSTEM_SINGLETON = Some(RwLock::new(Filesystem::new(..)))
\* over the storage STORAGE_SINGLETON holds
SetFilesystem(t) ==
    /\ pc[t] = "set_filesystem"
    /\ FILESYSTEM_SINGLETON' = Some([builder |-> t, storage |-> STORAGE_SINGLETON[1]])
    /\ pc' = [pc EXCEPT ![t] = "ret"]
    /\ Did(t, "filesystem")
    /\ UNCHANGED <<mmu, nvsTaken, STORAGE_SINGLETON, partition, first_pointer, built,
                   result, envFailed>>
    /\ UNCHANGED storageVars
    /\ UNCHANGED metaVars

\* get_filesystem: Ok(FILESYSTEM_SINGLETON.as_ref().unwrap())
ReturnFilesystem(t) ==
    /\ pc[t] = "ret"
    /\ pc' = [pc EXCEPT ![t] = "done"]
    /\ result' = [result EXCEPT ![t] =
                    [ok |-> TRUE, fs |-> FILESYSTEM_SINGLETON, err |-> "None"]]
    /\ UNCHANGED <<mmu, nvsTaken, STORAGE_SINGLETON, FILESYSTEM_SINGLETON, partition,
                   first_pointer, built, steps, envFailed>>
    /\ UNCHANGED storageVars
    /\ UNCHANGED metaVars

\* the caller has its result and may call get_filesystem again
CallerContinues(t) ==
    /\ pc[t] = "done"
    /\ pc' = [pc EXCEPT ![t] = "idle"]
    /\ UNCHANGED <<mmu, nvsTaken, STORAGE_SINGLETON, FILESYSTEM_SINGLETON, partition,
                   first_pointer, built, result, steps, envFailed>>
    /\ UNCHANGED storageVars
    /\ UNCHANGED metaVars

NextLife ==
    \E t \in Threads :
       \/ GetFilesystem(t)
       \/ FindPartition(t)
       \/ MmapFirstPage(t)
       \/ MmapRemainingPages(t)
       \/ MmapWholePartition(t)
       \/ NvsTake(t)
       \/ NvsOpen(t)
       \/ SetStorage(t)
       \/ SetFilesystem(t)
       \/ ReturnFilesystem(t)
       \/ CallerContinues(t)

SpecLife == InitLife /\ [][NextLife]_vars

----------------------------------------------------------------------------
(* Claims about the Storage operations, checked under Spec *)

\* the call record is the one the step just made
Called(op) == call'.op = op /\ call' # call

Range(address, length) == {i \in Offsets : i >= address /\ i < address + length}

\* what storage.read(address, length) yields in the current state
ReadBack(address, length) ==
    LET r == read(STORAGE_SINGLETON[1], address, length, TRUE)
    IN  IF r.result = "Ok" THEN ViewBytes(flash, mmu, r.view[1]) ELSE <<r.result>>

ReadBackNext(address, length) ==
    LET r == read(STORAGE_SINGLETON[1], address, length, TRUE)
    IN  IF r.result = "Ok" THEN ViewBytes(flash', mmu, r.view[1]) ELSE <<r.result>>

\* C1: a write whose range [address, address + len(data)) exceeds the capacity
\* returns a bounds error and never invokes the hardware write primitive.
C1_WriteBeyondCapacityRejected ==
    (call.op = "write" /\ call.address + call.length > Capacity)
        => (call.result \in BoundsErrors /\ call.hw = << >>)

\* C2: a read whose range [address, address + length) exceeds the capacity
\* returns a bounds error and produces no view; no successful read covers a
\* byte at an offset >= capacity.
C2_ReadBeyondCapacityRejected ==
    (call.op = "read" /\ call.address + call.length > Capacity)
        => (call.result \in BoundsErrors /\ call.view = << >>)

\* C3: an erase with a nonzero length, address and length multiples of
\* BLOCK_SIZE and address + length > capacity returns a bounds error and never
\* invokes the hardware erase primitive; every hardware erase call covers only
\* a range inside [0, capacity).
C3_EraseBeyondCapacityRejected ==
    /\ (/\ call.op = "erase"
        /\ call.length # 0
        /\ call.address % BLOCK_SIZE = 0
        /\ call.length % BLOCK_SIZE = 0
        /\ call.address + call.length > Capacity)
          => (call.result \in BoundsErrors /\ call.hw = << >>)
    /\ \A k \in DOMAIN call.hw :
          call.hw[k].prim = "esp_partition_erase_range"
            => call.hw[k].offset + call.hw[k].size <= Capacity

\* C4: an erase with a nonzero length whose address or length is no multiple
\* of BLOCK_SIZE returns an alignment error, makes no hardware erase call and
\* leaves the flash unchanged, whether or not the range is also out of bounds.
C4_MisalignedEraseRejected ==
    [][(/\ Called("erase")
        /\ call'.length # 0
        /\ (call'.address % BLOCK_SIZE # 0 \/ call'.length % BLOCK_SIZE # 0))
          => (/\ call'.result \in AlignmentErrors
              /\ call'.hw = << >>
              /\ flash' = flash)]_vars

\* a misaligned erase that is also out of bounds got the alignment error
C4_Witness ==
    /\ call.op = "erase"
    /\ call.length # 0
    /\ call.address % BLOCK_SIZE # 0
    /\ call.address > Capacity
    /\ call.result = "CanOnlyEraseAlongBlockBoundaries"

\* C5: erase(address, 0) returns success for every address, makes no hardware
\* call and leaves the flash unchanged, so repeating it changes nothing more.
C5_ZeroLengthEraseIsNoOp ==
    [][(Called("erase") /\ call'.length = 0)
          => (call'.result = "Ok" /\ call'.hw = << >> /\ flash' = flash)]_vars

\* a zero-length erase at a misaligned address beyond the capacity succeeded,
\* on a flash that holds programmed bytes
C5_Witness ==
    /\ call.op = "erase"
    /\ call.length = 0
    /\ call.address % BLOCK_SIZE # 0
    /\ call.address > Capacity
    /\ call.result = "Ok"
    /\ \E i \in Offsets : flash[i] # ERASED

\* C6: for a range inside the capacity, a read after a successful write over
\* the same range returns exactly the data written.
C6_ReadReturnsWrittenData ==
    (/\ call.op = "write"
     /\ call.result = "Ok"
     /\ call.address + call.length <= Capacity)
       => ReadBack(call.address, call.length) = call.data

\* C7: a write only ever clears bits and never erases: no stored bit goes from
\* 0 to 1, no hardware erase call is made, and every byte holds the AND of all
\* the data written to it since it was last erased (d1 & d2 after two writes).
C7_WriteOnlyClearsBits ==
    [][Called("write")
          => (/\ \A i \in Offsets : BitAnd(flash'[i], flash[i]) = flash'[i]
              /\ \A k \in DOMAIN call'.hw :
                    call'.hw[k].prim # "esp_partition_erase_range"
              /\ flash' = shadow')]_vars

\* a second write without an erase in between asked for a bit the first one
\* had cleared, and the byte kept the cleared bit
C7_Witness ==
    /\ call.op = "write"
    /\ call.result = "Ok"
    /\ \E i \in Range(call.address, call.length) :
          call.data[i - call.address + 1] = ERASED /\ flash[i] # ERASED

\* C8: after a successful erase(addr, len) a read over that range returns the
\* erased value for every byte, and the bytes outside the range keep their
\* values.
C8_EraseThenReadAllOnes ==
    [][(Called("erase") /\ call'.result = "Ok" /\ call'.length # 0)
          => (/\ ReadBackNext(call'.address, call'.length)
                    = [i \in 1 .. call'.length |-> ERASED]
              /\ \A i \in Offsets \ Range(call'.address, call'.length) :
                    flash'[i] = flash[i])]_vars

----------------------------------------------------------------------------
(* Claims about the lifecycle, checked under SpecLife *)

\* the threads whose current or last call ran FlashStorage::new
Initializers == {t \in Threads : "find" \in steps[t]}

\* C9: concurrent first-time calls of get_filesystem yield the same instance:
\* on a platform whose calls all succeed, at most one caller runs
\* FlashStorage::new and the partition mapping, and every caller that has
\* returned got the same filesystem.
C9_SingleInitialization ==
    (~envFailed /\ partition = Some(GoodPartition))
       => /\ Cardinality(Initializers) <= 1
          /\ \A t1, t2 \in Threads :
                (result[t1] # NoResult /\ result[t2] # NoResult)
                   => (result[t1].ok /\ result[t1] = result[t2])

\* C10: once get_filesystem has built the filesystem, a call that starts later
\* goes straight to the return, repeats no construction step (no partition
\* lookup, mapping, NVS call or Filesystem construction), returns the instance
\* already built, and the instance the singletons hold never changes.
C10_LaterCallsReuseInstance ==
    [][/\ FILESYSTEM_SINGLETON # None
          => (/\ FILESYSTEM_SINGLETON' = FILESYSTEM_SINGLETON
              /\ STORAGE_SINGLETON' = STORAGE_SINGLETON)
       /\ \A t \in Threads :
             /\ (pc[t] = "idle" /\ pc'[t] # "idle" /\ FILESYSTEM_SINGLETON # None)
                   => (/\ pc'[t] = "ret"
                       /\ UNCHANGED <<mmu, nvsTaken, STORAGE_SINGLETON, FILESYSTEM_SINGLETON>>)
             /\ (pc[t] = "ret" /\ pc'[t] # "ret")
                   => (/\ pc'[t] = "done"
                       /\ result'[t].ok
                       /\ result'[t].fs = FILESYSTEM_SINGLETON
                       /\ steps'[t] = steps[t]
                       /\ UNCHANGED <<mmu, nvsTaken, STORAGE_SINGLETON, FILESYSTEM_SINGLETON>>)
       ]_vars

\* a thread got the filesystem another thread had built, without running any
\* construction step itself
C10_Witness ==
    \E t \in Threads :
       /\ pc[t] = "done"
       /\ result[t].ok
       /\ steps[t] = {}
       /\ result[t].fs # None
       /\ result[t].fs[1].builder # t

\* no get_filesystem call is in progress
Quiescent == \A t \in Threads : pc[t] \in {"idle", "done"}

\* C11: when first-time construction fails, no partial state is retained: with
\* no call in progress and no storage constructed, both singletons are unset,
\* no mapping of a failed attempt is held and the NVS partition is not taken.
C11_FailureLeavesNoPartialState ==
    (Quiescent /\ STORAGE_SINGLETON = None)
       => (/\ FILESYSTEM_SINGLETON = None
           /\ mmu = EmptyMmu
           /\ ~nvsTaken)

\* C16: a partition whose erase size differs from BLOCK_SIZE is rejected with
\* the erase-size error before any mapping call or NVS call is made, and no
\* storage is ever constructed over such a partition.
C16_EraseSizeMismatchRejected ==
    /\ partition = Some(MismatchedPartition)
         => (/\ mmu = EmptyMmu
             /\ ~nvsTaken
             /\ \A t \in Threads :
                   /\ built[t] = None
                   /\ steps[t] \subseteq {"find"}
                   /\ result[t] # NoResult
                         => (~result[t].ok
                             /\ result[t].err = "EraseSizeDoesNotMatchBlockSize"))
    /\ (STORAGE_SINGLETON # None \/ FILESYSTEM_SINGLETON # None
         \/ \E t \in Threads : built[t] # None)
         => (partition # None /\ partition[1].erase_size = BLOCK_SIZE)

\* a call on a partition with a wrong erase size returned the erase-size error
C16_Witness ==
    /\ partition = Some(MismatchedPartition)
    /\ \E t \in Threads :
          /\ pc[t] = "done"
          /\ "find" \in steps[t]
          /\ result[t].err = "EraseSizeDoesNotMatchBlockSize"

\* the flash offset of the partition that virtual address va shows, or Unmapped
MapsTo(tbl, va) ==
    LET p == va \div MMU_PAGE_SIZE
    IN  IF p \in VPageSet /\ tbl[p] # NoPage
        THEN tbl[p] * MMU_PAGE_SIZE + (va % MMU_PAGE_SIZE)
        ELSE Unmapped

\* C17: after a successful construction the window at storage_arena is one
\* contiguous region spanning the partition: the byte at storage_arena + i is
\* the partition byte at offset i, whatever addresses the mapping calls gave.
C17_MappedWindowContiguous ==
    \A t \in Threads :
       built[t] # None
          => \A i \in Offsets : MapsTo(mmu, built[t][1].storage_arena + i) = i

----------------------------------------------------------------------------
(* Claims about u32 arithmetic, checked under Spec *)

\* C19: the bounds checks of read and erase are sound for every pair of u32
\* address and length, also when address + length exceeds the largest u32: a
\* read, or an aligned erase of nonzero length, whose sum overflows returns a
\* bounds error, without panic, view or hardware call.
C19_BoundsChecksSoundOnOverflow ==
    (/\ call.address + call.length >= WORD
     /\ \/ call.op = "read"
        \/ /\ call.op = "erase"
           /\ call.length # 0
           /\ call.address % BLOCK_SIZE = 0
           /\ call.length % BLOCK_SIZE = 0)
       => (call.result \in BoundsErrors /\ call.view = << >> /\ call.hw = << >>)

----------------------------------------------------------------------------
(* The metadata operations: read_metadata and write_metadata of threads that
   share the one FlashStorage, each a lock(), one call on the EspNvs handle
   and the drop of the guard at the end of the statement *)

\* an entry set_raw is half way through replacing: the bytes of neither value
Torn == <<-1>>

\* Mutex::lock grants the guard when it is always granted
lock_available_always(holder) == TRUE

\* Mutex::lock grants the guard when no thread holds one. (No thread panics
\* while holding the guard, so the mutex is never poisoned and lock() never
\* returns Err.)
lock_available(holder) == holder = NoThread

\* the guard is dropped when the call succeeded
guard_dropped_on_success(res) == res = "Ok"

\* the MutexGuard is a temporary of the statement: it is dropped when the
\* statement ends, on the ? returns as on the normal path
guard_dropped(res) == TRUE

\* get_raw answers None for an absent key as it answers an error
read_metadata_absent_is_error(entry, nvsok) ==
    IF ~nvsok \/ entry = None
    THEN [result |-> "IOError", out |-> None]
    ELSE IF Len(entry[1]) > READ_BUFFER
         THEN [result |-> "IOError", out |-> None]
         ELSE [result |-> "Ok", out |-> entry]

\* read_metadata once it holds the guard: get_raw into read_buffer, map_err,
\* ok_or(NotFound), the bytes boxed. nvsok: the NVS call itself did not fail.
\* A blob longer than read_buffer makes get_raw fail.
read_metadata(entry, nvsok) ==
    IF ~nvsok
    THEN [result |-> "IOError", out |-> None]
    ELSE IF entry = None
         THEN [result |-> "NotFound", out |-> None]
         ELSE IF Len(entry[1]) > READ_BUFFER
              THEN [result |-> "IOError", out |-> None]
              ELSE [result |-> "Ok", out |-> entry]

\* set_raw stores the value under every key of the namespace
set_raw_every_key(store, key, value) == [k \in DOMAIN store |-> Some(value)]

\* EspNvs::set_raw once it is through: the blob is the entry of key, the other
\* entries of the namespace are as they were
set_raw(store, key, value) == [store EXCEPT ![key] = Some(value)]

\* a caller enters read_metadata(key)
ReadMetadata(t, key) ==
    /\ mpc[t] = "idle"
    /\ mpc' = [mpc EXCEPT ![t] = "lock"]
    /\ mcall' = [mcall EXCEPT ![t] = [NoMetaCall EXCEPT !.op = "read", !.key = key]]
    /\ UNCHANGED <<nvs, nvsLock, latest>>
    /\ UNCHANGED storageVars
    /\ UNCHANGED lifeVars

\* a caller enters write_metadata(key, value)
WriteMetadata(t, key, value) ==
    /\ mpc[t] = "idle"
    /\ mpc' = [mpc EXCEPT ![t] = "lock"]
    /\ mcall' = [mcall EXCEPT ![t] = [NoMetaCall EXCEPT !.op = "write", !.key = key,
                                                        !.value = value]]
    /\ UNCHANGED <<nvs, nvsLock, latest>>
    /\ UNCHANGED storageVars
    /\ UNCHANGED lifeVars

\* self.nvs.lock(): blocks until the guard is granted
NvsLock(t) ==
    /\ mpc[t] = "lock"
    /\ lock_available(nvsLock)
    /\ nvsLock' = t
    /\ mpc' = [mpc EXCEPT ![t] = "use"]
    /\ UNCHANGED <<nvs, mcall, latest>>
    /\ UNCHANGED storageVars
    /\ UNCHANGED lifeVars

\* read_metadata from get_raw to its return, the guard dropped on the way
GetRaw(t) ==
    /\ mpc[t] = "use"
    /\ mcall[t].op = "read"
    /\ \E nvsok \in BOOLEAN :
          LET r == read_metadata(nvs[mcall[t].key], nvsok)
          IN  /\ mcall' = [mcall EXCEPT ![t].result = r.result, ![t].out = r.out,
                                         ![t].nvsok = nvsok]
              /\ nvsLock' = IF guard_dropped(r.result) THEN NoThread ELSE nvsLock
    /\ mpc' = [mpc EXCEPT ![t] = "done"]
    /\ UNCHANGED <<nvs, latest>>
    /\ UNCHANGED storageVars
    /\ UNCHANGED lifeVars

\* write_metadata, set_raw begins: NVS refuses the write and the entry stays,
\* or the entry is being replaced
SetRawBegins(t) ==
    /\ mpc[t] = "use"
    /\ mcall[t].op = "write"
    /\ \E nvsok \in BOOLEAN :
          IF nvsok
          THEN /\ nvs' = [nvs EXCEPT ![mcall[t].key] = Some(Torn)]
               /\ mpc' = [mpc EXCEPT ![t] = "setting"]
               /\ UNCHANGED <<nvsLock, mcall>>
          ELSE /\ mcall' = [mcall EXCEPT ![t].result = "IOError", ![t].nvsok = FALSE,
                                          ![t].value = << >>]
               /\ nvsLock' = IF guard_dropped("IOError") THEN NoThread ELSE nvsLock
               /\ mpc' = [mpc EXCEPT ![t] = "done"]
               /\ UNCHANGED nvs
    /\ UNCHANGED latest
    /\ UNCHANGED storageVars
    /\ UNCHANGED lifeVars

\* write_metadata, set_raw completes: the entry holds the value, Ok(()), the
\* guard dropped on the way; the borrow of value ends with the call
SetRawCompletes(t) ==
    /\ mpc[t] = "setting"
    /\ nvs' = set_raw(nvs, mcall[t].key, mcall[t].value)
    /\ latest' = [latest EXCEPT ![mcall[t].key] = Some(mcall[t].value)]
    /\ mcall' = [mcall EXCEPT ![t].result = "Ok", ![t].value = << >>]
    /\ nvsLock' = IF guard_dropped("Ok") THEN NoThread ELSE nvsLock
    /\ mpc' = [mpc EXCEPT ![t] = "done"]
    /\ UNCHANGED storageVars
    /\ UNCHANGED lifeVars

\* the caller has the result and goes on
MetadataReturns(t) ==
    /\ mpc[t] = "done"
    /\ mpc' = [mpc EXCEPT ![t] = "idle"]
    /\ mcall' = [mcall EXCEPT ![t] = NoMetaCall]
    /\ UNCHANGED <<nvs, nvsLock, latest>>
    /\ UNCHANGED storageVars
    /\ UNCHANGED lifeVars

\* the outcomes of the mapping calls whose window shows the partition in order
OrderedMappings ==
    {m \in Mappings :
        \A i \in Offsets : Load([j \in Offsets |-> j], m.mmu, m.storage_arena + i) = i}

\* the state after a setup with one such outcome (the metadata operations never
\* look at the window)
InitMeta ==
    /\ Init
    /\ [storage_arena |-> STORAGE_SINGLETON[1].storage_arena, mmu |-> mmu]
          = CHOOSE m \in OrderedMappings : TRUE

NextMeta ==
    \/ \E t \in Threads, key \in MetaKeys : ReadMetadata(t, key)
    \/ \E t \in Threads, key \in MetaKeys, value \in MetaValues :
          WriteMetadata(t, key, value)
    \/ \E t \in Threads : NvsLock(t)
    \/ \E t \in Threads : GetRaw(t)
    \/ \E t \in Threads : SetRawBegins(t)
    \/ \E t \in Threads : SetRawCompletes(t)
    \/ \E t \in Threads : MetadataReturns(t)

SpecMeta == InitMeta /\ [][NextMeta]_vars

----------------------------------------------------------------------------
(* Claims about the metadata operations, checked under SpecMeta *)

\* thread t is between lock() granting the guard and the end of the statement
UsesHandle(t) == mpc[t] \in {"use", "setting"}

\* C12: read_metadata of a key that was never written returns NotFound, not an
\* I/O error; after a write_metadata(k, v) that succeeded, read_metadata(k)
\* returns exactly the latest v written for k, for every v that fits the read
\* buffer, whatever was done to other keys; in each case when NVS itself serves
\* the call.
C12_ReadReturnsLatestWritten ==
    [][\A t \in Threads :
          (/\ mpc[t] = "use"
           /\ mpc'[t] = "done"
           /\ mcall[t].op = "read"
           /\ mcall'[t].nvsok)
             => IF latest[mcall[t].key] = None
                THEN mcall'[t].result = "NotFound"
                ELSE Len(latest[mcall[t].key][1]) <= READ_BUFFER
                        => /\ mcall'[t].result = "Ok"
                           /\ mcall'[t].out = latest[mcall[t].key]]_vars

C12_Witness ==
    \E t \in Threads, k \in MetaKeys :
       /\ mpc[t] = "done"
       /\ mcall[t].op = "read"
       /\ mcall[t].result = "Ok"
       /\ mcall[t].out = latest[mcall[t].key]
       /\ k # mcall[t].key
       /\ latest[k] # None
       /\ latest[k] # mcall[t].out

\* C13: writes of different values to one key by two threads leave one of the
\* written values in the entry, never a mix, and a read that runs while a
\* write is under way returns the old or the new value in full: whenever no
\* thread is inside set_raw every entry is absent or the value the last
\* completed write stored, and every value a read returned is a written value.
C13_ConcurrentWritesNeverMix ==
    /\ (\A t \in Threads : mpc[t] # "setting")
          => \A k \in MetaKeys : nvs[k] = latest[k]
    /\ \A k \in MetaKeys : latest[k] # None => latest[k][1] \in MetaValues
    /\ \A t \in Threads :
          (mcall[t].op = "read" /\ mcall[t].result = "Ok")
             => /\ mcall[t].out # None
                /\ mcall[t].out[1] \in MetaValues

C13_Witness ==
    \E t, u \in Threads :
       /\ t # u
       /\ mpc[t] = "setting"
       /\ mcall[t].op = "write"
       /\ mpc[u] = "lock"
       /\ mcall[u].key = mcall[t].key
       /\ mcall[u].op = "write"
       /\ mcall[u].value # mcall[t].value
       /\ latest[mcall[t].key] # None
       /\ nvs[mcall[t].key] = Some(Torn)

\* C14: at most one thread at a time uses the EspNvs handle, the thread that
\* uses it holds the lock, and the lock is never held by a thread that is not
\* in a metadata operation or has returned from one, whichever way it returned.
C14_LockHeldOnlyWhileUsingHandle ==
    /\ \A t, u \in Threads : (UsesHandle(t) /\ UsesHandle(u)) => t = u
    /\ \A t \in Threads : UsesHandle(t) <=> nvsLock = t

C14_Witness ==
    \E t, u \in Threads :
       /\ t # u
       /\ mpc[t] = "done"
       /\ mcall[t].result \in {"NotFound", "IOError"}
       /\ UsesHandle(u)
       /\ nvsLock = u

----------------------------------------------------------------------------
(* Progress of the metadata operations, checked under SpecMetaFair *)

\* the step of thread t that holds the guard: its one call on the handle
StoreOperation(t) == GetRaw(t) \/ SetRawBegins(t) \/ SetRawCompletes(t)

\* Threads that are scheduled: a thread that holds the guard gets to run its
\* store operation, and a thread blocked in lock() gets the guard if the guard
\* stays free. std::sync::Mutex promises no order among the threads that want
\* the guard, so nothing more is assumed of lock(). When a caller enters an
\* operation is left to the caller.
SpecMetaFair ==
    /\ InitMeta
    /\ [][NextMeta]_vars
    /\ \A t \in Threads : WF_vars(StoreOperation(t))
    /\ \A t \in Threads : WF_vars(NvsLock(t))

\* C15, as stated: with the threads scheduled fairly every read_metadata or
\* write_metadata that was entered returns: a thread waiting in lock() gets the
\* guard once the holder has finished its store operation.
C15_MetadataCallsReturn ==
    \A t \in Threads : (mpc[t] = "lock") ~> (mpc[t] = "done")

\* C15, amended: with the threads scheduled fairly the lock cannot deadlock: a
\* thread that holds the guard finishes its store operation and returns, and
\* a thread waits in lock() for ever only if other threads are granted the
\* guard again and again.
C15_MetadataCallsReturnUnlessOvertaken ==
    /\ \A t \in Threads : UsesHandle(t) ~> (mpc[t] = "done")
    /\ \A t \in Threads :
          <>[](mpc[t] = "lock")
             => []<>(<<\E u \in Threads \ {t} : NvsLock(u)>>_vars)

C15_Witness ==
    \E t, u \in Threads :
       /\ t # u
       /\ mpc[t] = "lock"
       /\ nvsLock = u
       /\ mpc[u] = "use"
       /\ mcall[u].op = "read"

----------------------------------------------------------------------------
(* The block operations and the metadata operations of one caller after the
   other, on one FlashStorage: SpecFrame *)

\* no operation is under way
AllReturned == call = NoCall /\ \A t \in Threads : mpc[t] = "idle"

NextFrame ==
    \/ /\ AllReturned
       /\ \E address \in U32, length \in U32, wraps \in BOOLEAN :
             Read(address, length, wraps)
    \/ /\ AllReturned
       /\ \E address \in U32, data \in Datas, hwok \in BOOLEAN :
             Write(address, data, hwok)
    \/ /\ AllReturned
       /\ \E address \in U32, length \in U32, hwok \in BOOLEAN, wraps \in BOOLEAN :
             Erase(address, length, hwok, wraps)
    \/ CallReturns
    \/ /\ AllReturned
       /\ \E t \in Threads, key \in MetaKeys : ReadMetadata(t, key)
    \/ /\ AllReturned
       /\ \E t \in Threads, key \in MetaKeys, value \in MetaValues :
             WriteMetadata(t, key, value)
    \/ \E t \in Threads : NvsLock(t)
    \/ \E t \in Threads : GetRaw(t)
    \/ \E t \in Threads : SetRawBegins(t)
    \/ \E t \in Threads : SetRawCompletes(t)
    \/ \E t \in Threads : MetadataReturns(t)

SpecFrame == InitMeta /\ [][NextFrame]_vars

----------------------------------------------------------------------------
(* Claims about what each operation leaves alone, checked under SpecFrame *)

\* thread t takes a step of its op (read_metadata or write_metadata)
MetaStep(t, op) == mpc'[t] # mpc[t] /\ mcall'[t].op = op

\* C18: the block address space and the metadata namespace are independent and
\* the reads are pure: read and read_metadata change no flash byte and no
\* metadata entry, write and erase change no metadata entry, write_metadata
\* changes no flash byte and no entry but the one of its key.
C18_OperationsKeepToTheirOwnState ==
    [][/\ Called("read") => (flash' = flash /\ nvs' = nvs)
       /\ (Called("write") \/ Called("erase")) => nvs' = nvs
       /\ \A t \in Threads :
             MetaStep(t, "read") => (flash' = flash /\ nvs' = nvs)
       /\ \A t \in Threads :
             MetaStep(t, "write")
                => /\ flash' = flash
                   /\ \A k \in MetaKeys \ {mcall'[t].key} : nvs'[k] = nvs[k]]_vars

C18_Witness ==
    \E t \in Threads, k \in MetaKeys, i \in Offsets :
       /\ mpc[t] = "done"
       /\ mcall[t].op = "write"
       /\ mcall[t].result = "Ok"
       /\ k # mcall[t].key
       /\ nvs[k] # None
       /\ nvs[k] # nvs[mcall[t].key]
       /\ flash[i] # ERASED

====
